---- MODULE Spec2Model ----
(***************************************************************************)
(* Model of aws-key-management-lambda.py: the Lambda entry point           *)
(* lambda_handler, the per-key loops it dispatches to, and the KMS         *)
(* provider state (key state, tags, aliases, replicas) those loops read    *)
(* and mutate.  One invocation runs at a time; each loop iteration         *)
(* (the processing of one key ARN) is one step.                            *)
(***************************************************************************)
EXTENDS Integers, Sequences, FiniteSets, TLC

\* ------------------------------------------------------------------ bounds
MaxLen == 2                      \* longest key_arns list of an event
AliasLen == 4                    \* most tokens between "alias" and "srk"

\* --------------------------------------------------------------- universe
Keys == {"k1", "k2"}             \* key identifiers known to the model
ArnPrefix == "arn:aws:kms:ca-central-1:acct:key"
\* a key ARN "arn:...:key/<id>", kept as its '/'-separated segments
ArnOf(k) == <<ArnPrefix, k>>
KeyArns == {ArnOf(k) : k \in Keys}

RECURSIVE SeqsUpTo(_, _)
SeqsUpTo(S, n) ==
  IF n = 0 THEN {<<>>}
  ELSE LET shorter == SeqsUpTo(S, n - 1)
       IN  shorter \cup {Append(s, x) : s \in {t \in shorter : Len(t) = n - 1}, x \in S}

KeyStates == {"Enabled", "Disabled", "PendingDeletion", "PendingReplicaDeletion", "NotFound"}

None == "None"                 \* a missing event field
NoAlias == <<>>                  \* Python's None (or an empty alias name): falsy
Today == "2024-06-01"            \* datetime.now().strftime('%Y-%m-%d')

Tag(key, value) == [TagKey |-> key, TagValue |-> value]
DisabledOnTag == Tag("DisabledOn", Today)
MigrationTag == Tag("MigrationStatus", "completed")

\* alias names are kept as token sequences so that str.replace is computed
ConventionalAlias == <<"alias/", "app", "_", "ca-central-1", "_", "srk">>
PlainAlias == <<"alias/", "legacy">>
AliasRec(name, target) == [AliasName |-> name, TargetKeyId |-> target]

PolicyOf(k) == <<"policy", k>>   \* the key's 'default' policy document
DefaultPolicy == <<"policy", "default">>
\* response['ReplicaKeyMetadata']['Arn']: a replica keeps the key id of its
\* primary and lives in the replica region
ReplicaArnOf(k, region) == <<"arn:aws:kms", region, "acct:key", k>>
NoReplica == [exists |-> FALSE, policy |-> <<>>, alias |-> NoAlias, tags |-> {}]
DeletionDays == 30               \* event.get('deletion_schedule_days', 30)

\* mutant: the denylist still holds a placeholder instead of the account
blocked_accounts_placeholder == {"000000000000"}
blocked_accounts == {"111122223333"}
Accounts == {"111122223333", "444455556666"}

\* mutant: rds is missing from the exclusion list
excluded_services_without_rds == {"dynamodb", "efs", "elasticache", "s3"}
excluded_services == {"dynamodb", "efs", "elasticache", "rds", "s3"}

RecognizedActions == {"disable", "enable", "schedule_deletion", "cancel_deletion",
                      "tag_srk_migration", "remove_tag_srk_migration", "replicate_ireland"}

\* what the provider answers to one call
OK == "ok"
NotFoundException == "NotFoundException"
ClientError == "ClientError"     \* any ClientError other than NotFoundException

VARIABLES
  scope,        \* family of requests this deployment receives
  kstate,       \* provider: KeyState of each key in the primary region
  ktags,        \* provider: tag set of each key
  kaliases,     \* provider: aliases listed for each key, in listing order
  replicas,     \* provider: the replica of each key in the secondary region
  pc,           \* "idle" | "loop" | "returned" | "raised"
  event,        \* the event of the running invocation
  account_id,   \* sts.get_caller_identity()['Account'] of that invocation
  i,            \* number of loop iterations done: key_arns[i] was the last key
  calls,        \* provider calls issued by the last loop iteration, in order
  logged,       \* log records emitted by the last step
  statusCode,   \* statusCode of the response, 0 while there is none
  lastEnable    \* per key: outcome of the enable operation that was the last
                \* operation on the key ("none" when the last one was no enable;
                \* "checked" once the running schedule_deletion request has
                \* worked on the key right after an enable that went through)

vars == <<scope, kstate, ktags, kaliases, replicas, pc, event, account_id, i,
          calls, logged, statusCode, lastEnable>>
provider == <<kstate, ktags, kaliases, replicas>>

\* ---------------------------------------------------------- pure helpers
\* key_arn.split('/')[-1]
KeyIdOf(key_arn) == key_arn[Len(key_arn)]

\* mutant: only the first occurrence is replaced
RECURSIVE Replace_first_only(_, _, _)
Replace_first_only(s, old, new) ==
  IF Len(s) < Len(old) THEN s
  ELSE IF SubSeq(s, 1, Len(old)) = old
       THEN new \o SubSeq(s, Len(old) + 1, Len(s))
       ELSE <<s[1]>> \o Replace_first_only(Tail(s), old, new)

\* str.replace(old, new): leftmost, non-overlapping occurrences
RECURSIVE Replace(_, _, _)
Replace(s, old, new) ==
  IF Len(s) < Len(old) THEN s
  ELSE IF SubSeq(s, 1, Len(old)) = old
       THEN new \o Replace(SubSeq(s, Len(old) + 1, Len(s)), old, new)
       ELSE <<s[1]>> \o Replace(Tail(s), old, new)

HasTag(tags, key) == \E t \in tags : t.TagKey = key
TagValueOf(tags, key) == (CHOOSE t \in tags : t.TagKey = key).TagValue

\* ----------------------------------------------------------- the provider
\* st is the provider state threaded through one loop iteration, together
\* with the calls and log records the iteration has produced so far.
Start == [ks |-> kstate, tg |-> ktags, rp |-> replicas,
          calls |-> <<>>, logged |-> {}, res |-> OK, raised |-> FALSE]

Log(st, level, msg) == [st EXCEPT !.logged = @ \cup {[level |-> level, msg |-> msg]}]

\* the effect of a call the provider serves
Effect(st, region, op, k, arg) ==
  IF region = "secondary"
  THEN CASE op = "put_key_policy" -> [st EXCEPT !.rp[k].policy = arg]
         [] op = "create_alias"   -> [st EXCEPT !.rp[k].alias = arg.AliasName]
         [] op = "tag_resource"   ->
              [st EXCEPT !.rp[k].tags =
                 {t \in @ : \A a \in arg : a.TagKey # t.TagKey} \cup arg]
         [] OTHER -> st
  ELSE CASE op = "disable_key"           -> [st EXCEPT !.ks[k] = "Disabled"]
         [] op = "enable_key"            -> [st EXCEPT !.ks[k] = "Enabled"]
         [] op = "schedule_key_deletion" -> [st EXCEPT !.ks[k] = "PendingDeletion"]
         [] op = "cancel_key_deletion"   -> [st EXCEPT !.ks[k] = "Disabled"]
         [] op = "tag_resource"          ->
              [st EXCEPT !.tg[k] =
                 {t \in @ : \A a \in arg : a.TagKey # t.TagKey} \cup arg]
         [] op = "untag_resource"        ->
              [st EXCEPT !.tg[k] = {t \in @ : t.TagKey \notin arg}]
         [] op = "replicate_key"         ->
              [st EXCEPT !.rp[k] = [exists |-> TRUE, policy |-> DefaultPolicy,
                                   alias |-> NoAlias, tags |-> {}]]
         [] OTHER -> st

\* the provider's answer to the next call of an iteration whose fail-th call
\* the provider fails (fail = 0: none): that failure, else NotFoundException
\* for a key that does not exist, else success
Answer(st, region, k, fail) ==
  IF Len(st.calls) + 1 = fail THEN ClientError
  ELSE IF region = "primary" /\ st.ks[k] = "NotFound" THEN NotFoundException
  ELSE IF region = "secondary" /\ ~st.rp[k].exists THEN NotFoundException
  ELSE OK

NoArg == {}

\* what a read call the provider serves returns
Returns(st, op, k, arg) ==
  CASE op = "describe_key"       -> st.ks[k]
    [] op = "list_resource_tags" -> st.tg[k]
    [] op = "list_aliases"       -> kaliases[k]
    [] op = "get_key_policy"     -> PolicyOf(k)
    [] op = "replicate_key"      -> ReplicaArnOf(k, arg)
    [] OTHER -> None

\* one provider call: record it, and apply its effect when it is served
Call(st, region, op, k, arg, fail) ==
  LET res == Answer(st, region, k, fail)
      rec == [op |-> op, region |-> region, key |-> k, arg |-> arg, result |-> res,
              ret |-> IF res = OK THEN Returns(st, op, k, arg) ELSE None]
      st1 == [st EXCEPT !.calls = Append(@, rec), !.res = res]
  IN  IF res = OK THEN Effect(st1, region, op, k, arg) ELSE st1

\* ------------------------------------------------- the handlers, per key
\* Each operator is the body of one loop iteration: st is the state it
\* starts from, fail is the number of the call of this iteration that the
\* provider fails with a ClientError (0: none; every handler ends the
\* iteration at the first failing call), and the result is the state the
\* iteration ends in.
Raise == "raise"

key_status(st, k, fail) ==
  LET s1 == Call(st, "primary", "describe_key", k, NoArg, fail)
  IN  [st |-> s1,
       status |-> IF s1.res = OK THEN st.ks[k]
                  ELSE IF s1.res = NotFoundException THEN "NotFound"
                  ELSE Raise]

\* mutant: the dry_run flag is not looked at
disable_keys_ignoring_dry_run(st, key_arn, dry_run, fail) ==
  LET k == KeyIdOf(key_arn)
      s1 == Call(st, "primary", "disable_key", k, NoArg, fail)
      s2 == Call(s1, "primary", "tag_resource", k, {DisabledOnTag}, fail)
  IN  IF s1.res # OK THEN Log(s1, "error", "Failed to disable key")
      ELSE IF s2.res # OK THEN Log(s2, "error", "Failed to disable key")
      ELSE Log(s2, "info", "disabled")

\* mutant: a failed tagging is tried a second time
disable_keys_retrying_tag(st, key_arn, dry_run, fail) ==
  LET k == KeyIdOf(key_arn) IN
  IF dry_run
  THEN LET r == key_status(st, k, fail) IN
       IF r.status = Raise THEN [r.st EXCEPT !.raised = TRUE]
       ELSE IF r.status # "NotFound"
            THEN Log(r.st, "info", "would be disabled (Dry Run)")
            ELSE Log(r.st, "info", "not found (Dry Run)")
  ELSE LET s1 == Call(st, "primary", "disable_key", k, NoArg, fail) IN
       IF s1.res # OK THEN Log(s1, "error", "Failed to disable key")
       ELSE LET s2 == Call(s1, "primary", "tag_resource", k, {DisabledOnTag},
                           fail)
                s3 == Call(s2, "primary", "tag_resource", k, {DisabledOnTag},
                           fail)
            IN
            IF s2.res = OK THEN Log(s2, "info", "disabled")
            ELSE IF s3.res # OK THEN Log(s3, "error", "Failed to disable key")
            ELSE Log(s3, "info", "disabled")

disable_keys(st, key_arn, dry_run, fail) ==
  LET k == KeyIdOf(key_arn) IN
  IF dry_run
  THEN LET r == key_status(st, k, fail) IN
       IF r.status = Raise THEN [r.st EXCEPT !.raised = TRUE]
       ELSE IF r.status # "NotFound"
            THEN Log(r.st, "info", "would be disabled (Dry Run)")
            ELSE Log(r.st, "info", "not found (Dry Run)")
  ELSE LET s1 == Call(st, "primary", "disable_key", k, NoArg, fail) IN
       IF s1.res # OK THEN Log(s1, "error", "Failed to disable key")
       ELSE LET s2 == Call(s1, "primary", "tag_resource", k, {DisabledOnTag},
                           fail) IN
            IF s2.res # OK THEN Log(s2, "error", "Failed to disable key")
            ELSE Log(s2, "info", "disabled")

\* mutant: the DisabledOn tag is left on the key
enable_keys_keeping_tag(st, key_arn, fail) ==
  LET k == KeyIdOf(key_arn)
      r == key_status(st, k, fail)
  IN
  IF r.status = Raise THEN Log(r.st, "error", "Failed to enable key")
  ELSE IF r.status = "NotFound" THEN Log(r.st, "info", "not found")
  ELSE LET s1 == Call(r.st, "primary", "enable_key", k, NoArg, fail) IN
       IF s1.res # OK THEN Log(s1, "error", "Failed to enable key")
       ELSE LET s2 == Call(s1, "primary", "list_resource_tags", k, NoArg,
                           fail) IN
            IF s2.res # OK THEN Log(s2, "error", "Failed to enable key")
            ELSE Log(s2, "info", "enabled")

\* mutant: DisabledOn is removed without looking whether it is there
enable_keys_untag_always(st, key_arn, fail) ==
  LET k == KeyIdOf(key_arn)
      r == key_status(st, k, fail)
      s1 == Call(r.st, "primary", "enable_key", k, NoArg, fail)
      s2 == Call(s1, "primary", "list_resource_tags", k, NoArg, fail)
      s3 == Call(s2, "primary", "untag_resource", k, {"DisabledOn"}, fail)
  IN
  IF r.status = Raise THEN Log(r.st, "error", "Failed to enable key")
  ELSE IF r.status = "NotFound" THEN Log(r.st, "info", "not found")
  ELSE IF s1.res # OK THEN Log(s1, "error", "Failed to enable key")
  ELSE IF s2.res # OK THEN Log(s2, "error", "Failed to enable key")
  ELSE IF s3.res # OK THEN Log(s3, "error", "Failed to enable key")
  ELSE Log(s3, "info", "enabled")

enable_keys(st, key_arn, fail) ==
  LET k == KeyIdOf(key_arn)
      r == key_status(st, k, fail)
  IN
  IF r.status = Raise THEN Log(r.st, "error", "Failed to enable key")
  ELSE IF r.status = "NotFound" THEN Log(r.st, "info", "not found")
  ELSE LET s1 == Call(r.st, "primary", "enable_key", k, NoArg, fail) IN
       IF s1.res # OK THEN Log(s1, "error", "Failed to enable key")
       ELSE LET s2 == Call(s1, "primary", "list_resource_tags", k, NoArg,
                           fail) IN
            IF s2.res # OK THEN Log(s2, "error", "Failed to enable key")
            ELSE IF HasTag(s2.tg[k], "DisabledOn")
                 THEN LET s3 == Call(s2, "primary", "untag_resource", k,
                                     {"DisabledOn"}, fail) IN
                      IF s3.res # OK THEN Log(s3, "error", "Failed to enable key")
                      ELSE Log(s3, "info", "enabled")
                 ELSE Log(s2, "info", "enabled")

\* next((tag for tag in tags['Tags'] if tag['TagKey'] == ...), None), as a
\* truth value
service_tag(tags) == HasTag(tags, "service_name")
\* mutant: any tag counts as the DisabledOn tag
disabled_tag_any(tags) == tags # {}
disabled_tag(tags) == HasTag(tags, "DisabledOn")

schedule_key_deletion(st, key_arn, deletion_days, dry_run, fail) ==
  LET k == KeyIdOf(key_arn)
      r == key_status(st, k, fail)
  IN
  IF r.status = Raise THEN Log(r.st, "error", "Failed to schedule deletion")
  ELSE IF r.status = "PendingDeletion"
       THEN Log(r.st, "info", "already scheduled for deletion")
  ELSE LET s1 == Call(r.st, "primary", "list_resource_tags", k, NoArg,
                      fail)
           tags == s1.tg[k]
       IN
       IF s1.res = NotFoundException THEN Log(s1, "info", "not found")
       ELSE IF s1.res # OK THEN Log(s1, "error", "Failed to schedule deletion")
       ELSE IF service_tag(tags)
               /\ TagValueOf(tags, "service_name") \in excluded_services
            THEN Log(s1, "warning", "in use, skipping deletion")
       ELSE IF disabled_tag(tags)
            THEN IF dry_run
                 THEN Log(s1, "info", "would be scheduled for deletion (Dry Run)")
                 ELSE LET s2 == Call(s1, "primary", "schedule_key_deletion", k,
                                     deletion_days, fail) IN
                      IF s2.res = NotFoundException THEN Log(s2, "info", "not found")
                      ELSE IF s2.res # OK
                           THEN Log(s2, "error", "Failed to schedule deletion")
                           ELSE Log(s2, "info", "scheduled for deletion")
            ELSE Log(s1, "info", "not disabled, skipping deletion")

\* mutant: PendingReplicaDeletion is forgotten
cancel_key_deletion_pending_only(st, key_arn, fail) ==
  LET k == KeyIdOf(key_arn)
      r == key_status(st, k, fail)
      s1 == Call(r.st, "primary", "cancel_key_deletion", k, NoArg, fail)
  IN
  IF r.status = Raise THEN Log(r.st, "error", "Error cancelling deletion")
  ELSE IF r.status = "PendingDeletion"
       THEN IF s1.res # OK THEN Log(s1, "error", "Error cancelling deletion")
            ELSE Log(s1, "info", "Cancelled deletion")
       ELSE Log(r.st, "info", "not scheduled for deletion, nothing to cancel")

cancel_key_deletion(st, key_arn, fail) ==
  LET k == KeyIdOf(key_arn)
      r == key_status(st, k, fail)
  IN
  IF r.status = Raise THEN Log(r.st, "error", "Error cancelling deletion")
  ELSE IF r.status \in {"PendingDeletion", "PendingReplicaDeletion"}
       THEN LET s1 == Call(r.st, "primary", "cancel_key_deletion", k, NoArg,
                           fail) IN
            IF s1.res # OK THEN Log(s1, "error", "Error cancelling deletion")
            ELSE Log(s1, "info", "Cancelled deletion")
       ELSE Log(r.st, "info", "not scheduled for deletion, nothing to cancel")

\* mutant: the wrong tag is written
tag_srk_migration_marks_disabled(st, key_arn, fail) ==
  LET s1 == Call(st, "primary", "tag_resource", KeyIdOf(key_arn), {DisabledOnTag},
                 fail) IN
  IF s1.res # OK THEN Log(s1, "error", "Failed to tag key")
  ELSE Log(s1, "info", "Tagged key with MigrationStatus=completed")

tag_srk_migration(st, key_arn, fail) ==
  LET s1 == Call(st, "primary", "tag_resource", KeyIdOf(key_arn), {MigrationTag},
                 fail) IN
  IF s1.res # OK THEN Log(s1, "error", "Failed to tag key")
  ELSE Log(s1, "info", "Tagged key with MigrationStatus=completed")

remove_tag_srk_migration(st, key_arn, fail) ==
  LET s1 == Call(st, "primary", "untag_resource", KeyIdOf(key_arn),
                 {"MigrationStatus"}, fail) IN
  IF s1.res # OK THEN Log(s1, "error", "Failed to remove tag from key")
  ELSE Log(s1, "info", "Removed MigrationStatus tag")

\* mutant: the first alias listed is taken, whatever its target
FirstAliasOf_any_target(aliases, id) ==
  IF aliases = <<>> THEN NoAlias ELSE Head(aliases).AliasName

\* the first alias of the listing whose target is the key's own id
RECURSIVE FirstAliasOf(_, _)
FirstAliasOf(aliases, id) ==
  IF aliases = <<>> THEN NoAlias
  ELSE IF Head(aliases).TargetKeyId = id THEN Head(aliases).AliasName
  ELSE FirstAliasOf(Tail(aliases), id)

get_primary_alias(st, key_arn, fail) ==
  LET k == KeyIdOf(key_arn)
      s1 == Call(st, "primary", "list_aliases", k, NoArg, fail)
  IN  IF s1.res # OK
      THEN [st |-> Log(s1, "error", "Error getting alias"), alias |-> NoAlias]
      ELSE [st |-> s1, alias |-> FirstAliasOf(kaliases[k], KeyIdOf(key_arn))]

\* mutant: a key that has a replica already is not replicated again
replicate_key_skipping_existing(st, primary_key_arn, primary_alias, secondary_region, dry_run, fail) ==
  LET k == KeyIdOf(primary_key_arn)
      secondary_alias == Replace(primary_alias, <<"_", "ca-central-1">>,
                                 <<"_", secondary_region>>)
      s1 == Call(st, "primary", "get_key_policy", k, "default", fail)
      policy == s1.calls[Len(s1.calls)].ret
      s2 == Call(s1, "primary", "list_resource_tags", k, NoArg, fail)
      tags == s2.calls[Len(s2.calls)].ret
      s3 == IF st.rp[k].exists THEN s2
            ELSE Call(s2, "primary", "replicate_key", k, secondary_region, fail)
      replica_arn == ReplicaArnOf(k, secondary_region)
      r == KeyIdOf(replica_arn)
      s4 == Call(s3, "secondary", "put_key_policy", r, policy, fail)
      s5 == Call(s4, "secondary", "create_alias", r,
                 AliasRec(secondary_alias, replica_arn), fail)
      s6 == Call(s5, "secondary", "tag_resource", r, tags, fail)
      failed(s) == Log(s, "error", "Error replicating key")
  IN
  IF s1.res # OK THEN failed(s1)
  ELSE IF s2.res # OK THEN failed(s2)
  ELSE IF dry_run THEN Log(s2, "info", "Would replicate key (Dry Run)")
  ELSE IF s3.res # OK THEN failed(s3)
  ELSE IF s4.res # OK THEN failed(s4)
  ELSE IF s5.res # OK THEN failed(s5)
  ELSE IF tags # {}
       THEN IF s6.res # OK THEN failed(s6)
            ELSE Log(s6, "info", "Replica key created")
       ELSE Log(s5, "info", "Replica key created")

\* mutant: the alias is created before the policy is applied
replicate_key_alias_first(st, primary_key_arn, primary_alias, secondary_region, dry_run, fail) ==
  LET k == KeyIdOf(primary_key_arn)
      secondary_alias == Replace(primary_alias, <<"_", "ca-central-1">>,
                                 <<"_", secondary_region>>)
      s1 == Call(st, "primary", "get_key_policy", k, "default", fail)
      policy == s1.calls[Len(s1.calls)].ret
      s2 == Call(s1, "primary", "list_resource_tags", k, NoArg, fail)
      tags == s2.calls[Len(s2.calls)].ret
      s3 == Call(s2, "primary", "replicate_key", k, secondary_region, fail)
      replica_arn == s3.calls[Len(s3.calls)].ret
      r == KeyIdOf(replica_arn)
      s4 == Call(s3, "secondary", "create_alias", r,
                 AliasRec(secondary_alias, replica_arn), fail)
      s5 == Call(s4, "secondary", "put_key_policy", r, policy, fail)
      s6 == Call(s5, "secondary", "tag_resource", r, tags, fail)
      failed(s) == Log(s, "error", "Error replicating key")
  IN
  IF s1.res # OK THEN failed(s1)
  ELSE IF s2.res # OK THEN failed(s2)
  ELSE IF dry_run THEN Log(s2, "info", "Would replicate key (Dry Run)")
  ELSE IF s3.res # OK THEN failed(s3)
  ELSE IF s4.res # OK THEN failed(s4)
  ELSE IF s5.res # OK THEN failed(s5)
  ELSE IF tags # {}
       THEN IF s6.res # OK THEN failed(s6)
            ELSE Log(s6, "info", "Replica key created")
       ELSE Log(s5, "info", "Replica key created")

replicate_key(st, primary_key_arn, primary_alias, secondary_region, dry_run, fail) ==
  LET k == KeyIdOf(primary_key_arn)
      secondary_alias == Replace(primary_alias, <<"_", "ca-central-1">>,
                                 <<"_", secondary_region>>)
      s1 == Call(st, "primary", "get_key_policy", k, "default", fail)
      policy == s1.calls[Len(s1.calls)].ret
      s2 == Call(s1, "primary", "list_resource_tags", k, NoArg, fail)
      tags == s2.calls[Len(s2.calls)].ret
      s3 == Call(s2, "primary", "replicate_key", k, secondary_region, fail)
      replica_arn == s3.calls[Len(s3.calls)].ret
      r == KeyIdOf(replica_arn)
      s4 == Call(s3, "secondary", "put_key_policy", r, policy, fail)
      s5 == Call(s4, "secondary", "create_alias", r,
                 AliasRec(secondary_alias, replica_arn), fail)
      s6 == Call(s5, "secondary", "tag_resource", r, tags, fail)
      failed(s) == Log(s, "error", "Error replicating key")
  IN
  IF s1.res # OK THEN failed(s1)
  ELSE IF s2.res # OK THEN failed(s2)
  ELSE IF dry_run THEN Log(s2, "info", "Would replicate key (Dry Run)")
  ELSE IF s3.res # OK THEN failed(s3)
  ELSE IF s4.res # OK THEN failed(s4)
  ELSE IF s5.res # OK THEN failed(s5)
  ELSE IF tags # {}
       THEN IF s6.res # OK THEN failed(s6)
            ELSE Log(s6, "info", "Replica key created")
       ELSE Log(s5, "info", "Replica key created")

\* body of the replicate_ireland loop of lambda_handler
replicate_ireland(st, key_arn, dry_run, fail) ==
  LET secondary_region == "eu-west-1"
      a == get_primary_alias(st, key_arn, fail)
  IN  IF a.alias # NoAlias
      THEN replicate_key(a.st, key_arn, a.alias, secondary_region, dry_run, fail)
      ELSE Log(a.st, "warning", "No alias found, skipping replication")

\* ------------------------------------------------------------ the requests
\* Events are drawn per family of requests: a deployment that manages the
\* lifecycle of keys, one that marks migrations, one that replicates.
Scopes == {"lifecycle", "migration", "replication"}
UnsupportedAction == "rotate"
ScopeActions(s) ==
  CASE s = "lifecycle"   -> {"disable", "enable", "schedule_deletion", "cancel_deletion"}
    [] s = "migration"   -> {"tag_srk_migration", "remove_tag_srk_migration"}
    [] s = "replication" -> {"replicate_ireland"}

Events(s) == [action : ScopeActions(s) \cup {UnsupportedAction},
              key_arns : SeqsUpTo(KeyArns, MaxLen),
              dry_run : BOOLEAN]

Range(f) == {f[x] : x \in DOMAIN f}

\* ------------------------------------------------------------------- Init
TagSetsOf(dis, mig, svc) ==
  {d \cup m \cup s : d \in {{}} \cup (IF dis THEN {{DisabledOnTag}} ELSE {}),
                     m \in {{}} \cup (IF mig THEN {{MigrationTag}} ELSE {}),
                     s \in {{}} \cup {{Tag("service_name", v)} : v \in svc}}

AliasListings(k) ==
  {<<>>,
   <<AliasRec(ConventionalAlias, k)>>,
   <<AliasRec(PlainAlias, "other")>>,
   <<AliasRec(PlainAlias, "other"), AliasRec(ConventionalAlias, k)>>}

\* a key that does not exist has no tags and no aliases
Consistent ==
  \A k \in Keys : kstate[k] = "NotFound" => ktags[k] = {} /\ kaliases[k] = <<>>

InitProvider ==
  /\ scope \in Scopes
  /\ replicas = [k \in Keys |-> NoReplica]
  /\ CASE scope = "lifecycle" ->
            /\ kstate \in [Keys -> KeyStates]
            /\ ktags \in [Keys -> TagSetsOf(TRUE, FALSE, {"rds", "lambda"})]
            /\ kaliases \in [Keys -> {<<>>}]
       [] scope = "migration" ->
            /\ kstate \in [Keys -> {"Enabled", "PendingDeletion", "NotFound"}]
            /\ ktags \in [Keys -> TagSetsOf(TRUE, TRUE, {"rds"})]
            /\ kaliases \in [Keys -> {<<>>}]
       [] scope = "replication" ->
            /\ kstate \in [Keys -> {"Enabled", "NotFound"}]
            /\ ktags \in [Keys -> {{}, {DisabledOnTag, Tag("service_name", "rds")}}]
            /\ kaliases \in [Keys -> UNION {AliasListings(k) : k \in Keys}]
            /\ \A k \in Keys : kaliases[k] \in AliasListings(k)
  /\ Consistent

NoEvent == [action |-> None, key_arns |-> <<>>, dry_run |-> FALSE]

Init ==
  /\ InitProvider
  /\ pc = "idle"
  /\ event = NoEvent
  /\ account_id = None
  /\ i = 0
  /\ calls = <<>>
  /\ logged = {}
  /\ statusCode = 0
  /\ lastEnable = [k \in Keys |-> "none"]

\* mutant: the empty key list is not rejected
LambdaHandler_without_empty_check(ev, acct) ==
  LET blocked == acct \in blocked_accounts
      unsupported == ev.action \notin RecognizedActions
  IN
  /\ pc = "idle"
  /\ event' = ev
  /\ account_id' = acct
  /\ i' = 0
  /\ calls' = <<>>
  /\ IF blocked
     THEN /\ logged' = {[level |-> "warning", msg |-> "Execution blocked"]}
          /\ statusCode' = 403 /\ pc' = "returned"
     ELSE IF unsupported
     THEN /\ logged' = {[level |-> "error", msg |-> "Unsupported action"]}
          /\ statusCode' = 400 /\ pc' = "returned"
     ELSE /\ logged' = {}
          /\ statusCode' = 0 /\ pc' = "loop"
  /\ lastEnable' = [k \in Keys |-> "none"]
  /\ UNCHANGED <<scope, kstate, ktags, kaliases, replicas>>

\* ---------------------------------------------------------------- actions
\* lambda_handler up to the dispatch: the safety gate, the validation of
\* the event, and the choice of the loop to run
LambdaHandler(ev, acct) ==
  LET blocked == acct \in blocked_accounts
      nokeys == ev.key_arns = <<>>
      unsupported == ev.action \notin RecognizedActions
      dispatched == ~blocked /\ ~nokeys /\ ~unsupported
  IN
  /\ pc = "idle"
  /\ event' = ev
  /\ account_id' = acct
  /\ i' = 0
  /\ calls' = <<>>
  /\ IF blocked
     THEN /\ logged' = {[level |-> "warning", msg |-> "Execution blocked"]}
          /\ statusCode' = 403 /\ pc' = "returned"
     ELSE IF nokeys
     THEN /\ logged' = {[level |-> "error", msg |-> "No key ARNs provided"]}
          /\ statusCode' = 400 /\ pc' = "returned"
     ELSE IF unsupported
     THEN /\ logged' = {[level |-> "error", msg |-> "Unsupported action"]}
          /\ statusCode' = 400 /\ pc' = "returned"
     ELSE /\ logged' = {}
          /\ statusCode' = 0 /\ pc' = "loop"
  /\ lastEnable' = [k \in Keys |->
                      IF dispatched /\ ev.action \in {"enable", "schedule_deletion"}
                         /\ ArnOf(k) \in Range(ev.key_arns)
                         /\ lastEnable[k] # "checked"
                      THEN lastEnable[k] ELSE "none"]
  /\ UNCHANGED <<scope, kstate, ktags, kaliases, replicas>>

Invoke == \E ev \in Events(scope), acct \in Accounts : LambdaHandler(ev, acct)

\* the key ARN the next loop iteration works on ("for arn in key_arns")
NextArn == event.key_arns[i + 1]

\* the end of one loop iteration: its effects on the provider, its calls
\* and log records, and the loop moving on (or the exception leaving it)
Commit(st) ==
  /\ kstate' = st.ks
  /\ ktags' = st.tg
  /\ replicas' = st.rp
  /\ calls' = st.calls
  /\ logged' = st.logged
  /\ i' = i + 1
  /\ pc' = IF st.raised THEN "raised" ELSE "loop"
  /\ UNCHANGED <<scope, kaliases, event, account_id, statusCode>>

InLoop(action) == pc = "loop" /\ i < Len(event.key_arns) /\ event.action = action

DisableKeys ==
  /\ InLoop("disable")
  /\ \E fail \in 0..2 :
       Commit(disable_keys(Start, NextArn, event.dry_run, fail))
  /\ UNCHANGED lastEnable

\* what an enable operation on a key leaves in lastEnable
EnableOutcome(st, before) ==
  IF st.calls[1].result = NotFoundException THEN "none"
  ELSE IF \E n \in DOMAIN st.calls : st.calls[n].result # OK THEN "failed"
  ELSE IF before \in {"ok", "repeat"} THEN "repeat"
  ELSE "ok"

\* mutant: with dry_run the key is only looked up
EnableKeys_honouring_dry_run ==
  /\ InLoop("enable")
  /\ \E fail \in 0..4 :
       LET st == IF event.dry_run
                 THEN Log(key_status(Start, KeyIdOf(NextArn), fail).st, "info",
                          "would be enabled (Dry Run)")
                 ELSE enable_keys(Start, NextArn, fail)
       IN  /\ Commit(st)
           /\ lastEnable' = [lastEnable EXCEPT
                               ![KeyIdOf(NextArn)] = EnableOutcome(st, @)]

EnableKeys ==
  /\ InLoop("enable")
  /\ \E fail \in 0..4 :
       LET st == enable_keys(Start, NextArn, fail)
       IN  /\ Commit(st)
           /\ lastEnable' = [lastEnable EXCEPT
                               ![KeyIdOf(NextArn)] = EnableOutcome(st, @)]

ScheduleKeyDeletion ==
  /\ InLoop("schedule_deletion")
  /\ \E fail \in 0..3 :
       Commit(schedule_key_deletion(Start, NextArn, DeletionDays, event.dry_run, fail))
  /\ lastEnable' = [lastEnable EXCEPT
                      ![KeyIdOf(NextArn)] = IF @ \in {"ok", "repeat"} THEN "checked"
                                            ELSE "none"]

CancelKeyDeletion ==
  /\ InLoop("cancel_deletion")
  /\ \E fail \in 0..2 :
       Commit(cancel_key_deletion(Start, NextArn, fail))
  /\ UNCHANGED lastEnable

TagSrkMigration ==
  /\ InLoop("tag_srk_migration")
  /\ \E fail \in 0..1 :
       Commit(tag_srk_migration(Start, NextArn, fail))
  /\ UNCHANGED lastEnable

RemoveTagSrkMigration ==
  /\ InLoop("remove_tag_srk_migration")
  /\ \E fail \in 0..1 :
       Commit(remove_tag_srk_migration(Start, NextArn, fail))
  /\ UNCHANGED lastEnable

ReplicateIreland ==
  /\ InLoop("replicate_ireland")
  /\ \E fail \in 0..7 :
       Commit(replicate_ireland(Start, NextArn, event.dry_run, fail))
  /\ UNCHANGED lastEnable

\* the loop is over: lambda_handler returns its completion response
Return ==
  /\ pc = "loop" /\ i = Len(event.key_arns)
  /\ pc' = "returned"
  /\ statusCode' = 200
  /\ UNCHANGED <<scope, kstate, ktags, kaliases, replicas, event, account_id,
                 i, calls, logged, lastEnable>>

\* the invocation is over (it returned, or an exception left the handler):
\* its locals are gone, the provider keeps what the calls did to it
Finish ==
  /\ pc \in {"returned", "raised"}
  /\ pc' = "idle"
  /\ event' = NoEvent
  /\ account_id' = None
  /\ i' = 0
  /\ calls' = <<>>
  /\ logged' = {}
  /\ statusCode' = 0
  /\ UNCHANGED <<scope, kstate, ktags, kaliases, replicas, lastEnable>>

Next ==
  \/ Invoke
  \/ DisableKeys
  \/ EnableKeys
  \/ ScheduleKeyDeletion
  \/ CancelKeyDeletion
  \/ TagSrkMigration
  \/ RemoveTagSrkMigration
  \/ ReplicateIreland
  \/ Return
  \/ Finish

Spec == Init /\ [][Next]_vars

\* ------------------------------------------ replication of aliased keys
\* The alias names replicate_key is given: "alias" and "srk" around up to
\* AliasLen tokens, each the separator or the primary region.
AliasTokens == {"_", "ca-central-1"}
AliasNames ==
  {<<"alias">> \o s \o <<"srk">> : s \in SeqsUpTo(AliasTokens, AliasLen)}

\* one existing key without tags and without replica, under any of the names
InitAlias ==
  /\ scope = "replication"
  /\ kstate = [k \in Keys |-> IF k = "k1" THEN "Enabled" ELSE "NotFound"]
  /\ ktags = [k \in Keys |-> {}]
  /\ \E name \in AliasNames :
       kaliases = [k \in Keys |-> IF k = "k1" THEN <<AliasRec(name, k)>> ELSE <<>>]
  /\ replicas = [k \in Keys |-> NoReplica]
  /\ pc = "idle"
  /\ event = NoEvent
  /\ account_id = None
  /\ i = 0
  /\ calls = <<>>
  /\ logged = {}
  /\ statusCode = 0
  /\ lastEnable = [k \in Keys |-> "none"]

NextAlias ==
  \/ Invoke
  \/ ReplicateIreland
  \/ Return
  \/ Finish

SpecAlias == InitAlias /\ [][NextAlias]_vars

TypeOK ==
  /\ scope \in Scopes
  /\ kstate \in [Keys -> KeyStates]
  /\ \A k \in Keys : \A t \in ktags[k] :
       t.TagKey \in {"DisabledOn", "MigrationStatus", "service_name"}
  /\ \A k \in Keys : replicas[k].exists \in BOOLEAN
  /\ pc \in {"idle", "loop", "returned", "raised"}
  /\ event \in Events(scope) \cup {NoEvent}
  /\ i \in 0..Len(event.key_arns)
  /\ statusCode \in {0, 200, 400, 403}
  /\ lastEnable \in [Keys -> {"none", "ok", "failed", "repeat", "checked"}]
  /\ Consistent

\* ----------------------------------------------------------------- claims
\* vocabulary of the claims, spelled out as the specification gives it
BlockedAccount == "111122223333"
SevenActions == {"disable", "enable", "schedule_deletion", "cancel_deletion",
                 "tag_srk_migration", "remove_tag_srk_migration", "replicate_ireland"}
ExcludedServiceNames == {"dynamodb", "efs", "elasticache", "rds", "s3"}
MutatingCalls == {"disable_key", "enable_key", "tag_resource", "untag_resource",
                  "schedule_key_deletion", "cancel_key_deletion", "replicate_key",
                  "put_key_policy", "create_alias"}
ReadOnlyCalls == {"describe_key", "list_resource_tags", "list_aliases", "get_key_policy"}

\* the key of the last loop iteration; calls and logged are that iteration's
LastKey == KeyIdOf(event.key_arns[i])
\* an iteration of the loop of `action` has just worked on LastKey
Processed(action) == pc # "idle" /\ i >= 1 /\ event.action = action
Issued(op) == \E n \in DOMAIN calls : calls[n].op = op
Logged(msg) == \E r \in logged : r.msg = msg
SomeCallFailed == \E n \in DOMAIN calls : calls[n].result # OK
\* the request passed the safety gate and the validation of the event
Dispatched ==
  /\ pc # "idle"
  /\ account_id # BlockedAccount
  /\ event.key_arns # <<>>
  /\ event.action \in SevenActions
ServiceExcluded(tags) ==
  \E t \in tags : t.TagKey = "service_name" /\ t.TagValue \in ExcludedServiceNames

\* C1: processing a key that does not exist (its state resolves to NotFound)
\* under disable, enable, schedule_deletion, cancel_deletion or
\* replicate_ireland reports not-found and issues no mutating provider call.
C1_NotFoundIsNoOp ==
  \A a \in {"disable", "enable", "schedule_deletion", "cancel_deletion",
            "replicate_ireland"} :
    (/\ Processed(a)
     /\ kstate[LastKey] = "NotFound"
     /\ \A n \in DOMAIN calls : calls[n].result # ClientError)
    => /\ \A n \in DOMAIN calls : calls[n].op \notin MutatingCalls
       /\ Logged("not found") \/ Logged("not found (Dry Run)")

\* C2: schedule_key_deletion is never issued for a key whose service_name
\* tag is in the excluded set, whatever its state, its DisabledOn tag and
\* dry_run; a request that worked on such a key still returns 200.
C2_ExcludedNeverScheduled ==
  /\ \A n \in DOMAIN calls :
       calls[n].op = "schedule_key_deletion" => ~ServiceExcluded(ktags[calls[n].key])
  /\ (/\ event.action = "schedule_deletion"
      /\ pc \in {"returned", "raised"}
      /\ \E j \in 1..i : ServiceExcluded(ktags[KeyIdOf(event.key_arns[j])]))
     => statusCode = 200

C2_Witness ==
  /\ Processed("schedule_deletion") /\ ~event.dry_run
  /\ pc = "returned" /\ statusCode = 200
  /\ kstate[LastKey] = "Disabled"
  /\ Tag("service_name", "rds") \in ktags[LastKey]
  /\ HasTag(ktags[LastKey], "DisabledOn")
  /\ Len(calls) = 2 /\ calls[2].op = "list_resource_tags" /\ calls[2].result = OK
  /\ Logged("in use, skipping deletion")

\* C3: with dry_run true, a step of disable, schedule_deletion or
\* replicate_ireland issues only read-only provider calls and leaves the
\* provider's state (key states, tags, aliases, replicas) unchanged.
C3_DryRunReadOnly ==
  [][(/\ pc = "loop" /\ event.dry_run
      /\ event.action \in {"disable", "schedule_deletion", "replicate_ireland"})
     => /\ provider' = provider
        /\ \A n \in DOMAIN calls' : calls'[n].op \in ReadOnlyCalls]_vars

C3_Witness ==
  /\ Processed("disable") /\ event.dry_run
  /\ kstate[LastKey] = "Enabled" /\ ~HasTag(ktags[LastKey], "DisabledOn")
  /\ Len(calls) = 1 /\ calls[1].op = "describe_key" /\ calls[1].result = OK
  /\ Logged("would be disabled (Dry Run)")

\* C4: a provider failure while working on key i of the list is logged and
\* does not keep the loop from going on to key i+1.
C4_FailureIsolated ==
  (/\ Dispatched /\ i >= 1 /\ i < Len(event.key_arns)
   /\ SomeCallFailed)
  => /\ logged # {}
     /\ pc = "loop"

\* C5: a request from the blocked account returns 403 and issues no
\* key-management call, whatever its action, key list and dry_run.
C5_BlockedAccount ==
  (pc # "idle" /\ account_id = BlockedAccount)
  => /\ pc = "returned" /\ statusCode = 403
     /\ i = 0 /\ calls = <<>>

C5_Witness ==
  /\ account_id = BlockedAccount
  /\ event.action = "schedule_deletion" /\ ~event.dry_run
  /\ Len(event.key_arns) = 2
  /\ \E k \in Keys : kstate[k] = "Disabled" /\ ktags[k] = {DisabledOnTag}
                     /\ ArnOf(k) \in Range(event.key_arns)
  /\ statusCode = 403

\* C6: in a non-blocked account, a request with an empty key list or with
\* an action outside the seven recognized names returns 400 and issues no
\* per-key provider call.
C6_BadRequest ==
  (/\ pc # "idle" /\ account_id # BlockedAccount
   /\ event.key_arns = <<>> \/ event.action \notin SevenActions)
  => /\ pc = "returned" /\ statusCode = 400
     /\ i = 0 /\ calls = <<>>

C6_Witness ==
  /\ account_id # BlockedAccount
  /\ event.key_arns = <<>> /\ event.action = "enable"
  /\ pc = "returned" /\ statusCode = 400
  /\ Logged("No key ARNs provided")

\* C7: in a non-blocked account, every request with a non-empty key list
\* and a recognized action returns 200, whichever provider calls fail.
C7_AlwaysReturns200 ==
  (Dispatched /\ pc \in {"returned", "raised"})
  => pc = "returned" /\ statusCode = 200

\* C8: schedule_key_deletion is issued for a key only if the tags read for
\* it in the same operation contain DisabledOn; a key without the tag (never
\* disabled here, or disabled by a disable whose tagging failed) is not
\* scheduled.
C8_ScheduleNeedsDisabledOn ==
  \A n \in DOMAIN calls :
    calls[n].op = "schedule_key_deletion"
    => /\ n > 1
       /\ calls[n - 1].op = "list_resource_tags" /\ calls[n - 1].result = OK
       /\ calls[n - 1].key = calls[n].key
       /\ \E t \in calls[n - 1].ret : t.TagKey = "DisabledOn"

C8_Witness ==
  /\ Processed("schedule_deletion")
  /\ Len(calls) = 3 /\ calls[3].op = "schedule_key_deletion" /\ calls[3].result = OK
  /\ calls[1].ret = "Enabled"
  /\ DisabledOnTag \in calls[2].ret
  /\ kstate[LastKey] = "PendingDeletion"

\* C9: cancel_key_deletion is issued for a key exactly when its state
\* resolved in the same operation is PendingDeletion or
\* PendingReplicaDeletion; for an Enabled or Disabled key cancel_deletion
\* issues no mutating call and reports nothing-to-cancel.
C9_CancelIffPending ==
  /\ Issued("cancel_key_deletion") => Processed("cancel_deletion")
  /\ Processed("cancel_deletion") =>
       LET resolved == calls[1].op = "describe_key" /\ calls[1].result = OK
       IN  /\ Issued("cancel_key_deletion")
              <=> (resolved /\ calls[1].ret \in {"PendingDeletion",
                                                 "PendingReplicaDeletion"})
           /\ \A n \in DOMAIN calls :
                calls[n].op = "cancel_key_deletion" => n = 2 /\ calls[n].key = LastKey
           /\ (resolved /\ calls[1].ret \in {"Enabled", "Disabled"})
              => /\ \A n \in DOMAIN calls : calls[n].op \notin MutatingCalls
                 /\ Logged("not scheduled for deletion, nothing to cancel")

C9_Witness ==
  /\ Processed("cancel_deletion")
  /\ Len(calls) = 2 /\ calls[1].ret = "PendingReplicaDeletion"
  /\ calls[2].op = "cancel_key_deletion" /\ calls[2].result = OK
  /\ kstate[LastKey] = "Disabled"

\* the running request has not worked on key k yet, so lastEnable[k] is what
\* the request before it left
FirstInRequest(k) == \A j \in 1..i : KeyIdOf(event.key_arns[j]) # k

DisabledOnToday == [TagKey |-> "DisabledOn", TagValue |-> Today]
\* the mutating calls of the last loop iteration, in order
MutatingOps(cs) == SelectSeq(cs, LAMBDA c : c.op \in MutatingCalls)

\* C11: in a non-dry-run disable request of a non-blocked account, a listed
\* key whose state is Enabled receives exactly one disable_key call followed
\* by exactly one tag_resource call that sets DisabledOn to the current
\* date and no other mutating call, and the request returns 200.
C11_DisableEnabledKey ==
  /\ [][(/\ InLoop("disable") /\ ~event.dry_run /\ account_id # BlockedAccount
          /\ kstate[KeyIdOf(NextArn)] = "Enabled")
         => LET m == MutatingOps(calls') IN
            /\ Len(m) = 2
            /\ m[1].op = "disable_key" /\ m[1].key = KeyIdOf(NextArn)
            /\ m[2].op = "tag_resource" /\ m[2].key = KeyIdOf(NextArn)
            /\ m[2].arg = {DisabledOnToday}]_vars
  /\ [][(/\ event.action = "disable" /\ ~event.dry_run /\ pc = "loop"
          /\ account_id # BlockedAccount /\ pc' \notin {"loop", "idle"})
         => pc' = "returned" /\ statusCode' = 200]_vars

\* C13 (as claimed): in a non-dry-run disable, when disable_key succeeds for
\* a key and the tag_resource call that follows it fails, the key is left
\* Disabled without the DisabledOn tag, neither call is repeated for the key
\* and the loop goes on to the remaining keys.
C13_TagFailureLeavesUntagged ==
  (/\ Processed("disable") /\ ~event.dry_run
   /\ Len(calls) >= 2
   /\ calls[1].op = "disable_key" /\ calls[1].result = OK
   /\ calls[2].op = "tag_resource" /\ calls[2].result # OK)
  => /\ kstate[LastKey] = "Disabled"
     /\ ~HasTag(ktags[LastKey], "DisabledOn")
     /\ Len(calls) = 2
     /\ pc \in {"loop", "returned"}

\* C13 (amended): in a non-dry-run disable, when disable_key succeeds for a
\* key and the tag_resource call that follows it fails, the key is left
\* Disabled with the tags it had before the operation (so without a
\* DisabledOn tag unless it already carried one), neither call is repeated
\* for the key and the loop goes on to the remaining keys.
C13_TagFailureLeavesTagsAsBefore ==
  [][(/\ InLoop("disable") /\ ~event.dry_run
      /\ Len(calls') >= 2
      /\ calls'[1].op = "disable_key" /\ calls'[1].result = OK
      /\ calls'[2].op = "tag_resource" /\ calls'[2].result # OK)
     => /\ kstate'[KeyIdOf(NextArn)] = "Disabled"
        /\ ktags' = ktags
        /\ Len(calls') = 2
        /\ pc' = "loop"]_vars

C13_Witness ==
  /\ Processed("disable") /\ ~event.dry_run
  /\ i = 1 /\ Len(event.key_arns) = 2 /\ pc = "loop"
  /\ Len(calls) = 2
  /\ calls[1].op = "disable_key" /\ calls[1].result = OK
  /\ calls[2].op = "tag_resource" /\ calls[2].result = ClientError
  /\ kstate[LastKey] = "Disabled" /\ ~HasTag(ktags[LastKey], "DisabledOn")

\* C14: in a non-dry-run disable, both provider calls are attempted for
\* every listed key that exists: the disable_key call and the tag_resource
\* call that sets DisabledOn.
C14_BothCallsAttempted ==
  (/\ Processed("disable") /\ ~event.dry_run
   /\ kstate[LastKey] # "NotFound")
  => /\ \E n \in DOMAIN calls : calls[n].op = "disable_key" /\ calls[n].key = LastKey
     /\ \E n \in DOMAIN calls :
          /\ calls[n].op = "tag_resource" /\ calls[n].key = LastKey
          /\ \E t \in calls[n].arg : t.TagKey = "DisabledOn"

\* the alias replicate_ireland found for key k: the first one listed for it
\* whose target is k
OwnAliases(k) == {j \in DOMAIN kaliases[k] : kaliases[k][j].TargetKeyId = k}
PrimaryAliasOf(k) ==
  kaliases[k][CHOOSE j \in OwnAliases(k) : \A h \in OwnAliases(k) : j <= h].AliasName
\* alias a with every "_ca-central-1" turned into "_<region>", token by token
DerivedAlias(a, region) ==
  [j \in 1..Len(a) |->
     IF j > 1 /\ a[j] = "ca-central-1" /\ a[j - 1] = "_" THEN region ELSE a[j]]
HasRegionToken(a) == \E j \in 2..Len(a) : a[j] = "ca-central-1" /\ a[j - 1] = "_"

\* C12: the alias replicate_key creates for a replica in eu-west-1 is the
\* primary alias with every occurrence of _ca-central-1 replaced by
\* _eu-west-1 and everything else unchanged: alias_ca-central-1_srk yields
\* alias_eu-west-1_srk, and an alias without the token is used unchanged.
C12_AliasDerivation ==
  \A n \in DOMAIN calls :
    calls[n].op = "create_alias" =>
      LET a == PrimaryAliasOf(calls[n].key)
          d == calls[n].arg.AliasName
      IN  /\ d = DerivedAlias(a, "eu-west-1")
          /\ a = <<"alias", "_", "ca-central-1", "_", "srk">>
             => d = <<"alias", "_", "eu-west-1", "_", "srk">>
          /\ ~HasRegionToken(a) => d = a

C12_Witness ==
  /\ Processed("replicate_ireland") /\ ~event.dry_run
  /\ OwnAliases(LastKey) # {}
  /\ PrimaryAliasOf(LastKey) = <<"alias", "_", "ca-central-1", "_", "ca-central-1", "srk">>
  /\ Len(calls) = 6 /\ calls[6].op = "create_alias" /\ calls[6].result = OK
  /\ replicas[LastKey].alias = <<"alias", "_", "eu-west-1", "_", "eu-west-1", "srk">>

\* the served call of the last iteration that issued op (when there is one)
Served(op) == {n \in DOMAIN calls : calls[n].op = op /\ calls[n].result = OK}
ReplicationOrder == <<"replicate_key", "put_key_policy", "create_alias", "tag_resource">>

\* C15: a non-dry-run replication of one key issues its mutating calls in
\* the order replicate_key, put_key_policy, create_alias, tag_resource;
\* put_key_policy carries the policy document read from the primary,
\* create_alias targets the replica replicate_key returned, tag_resource is
\* issued only when the tag set read from the primary is non-empty and
\* carries exactly that set; a failed call is the last call for the key and
\* the loop goes on.
C15_ReplicationSteps ==
  (Processed("replicate_ireland") /\ ~event.dry_run) =>
    LET m == MutatingOps(calls) IN
    /\ Len(m) <= 4
    /\ \A j \in 1..Len(m) : m[j].op = ReplicationOrder[j] /\ m[j].key = LastKey
    /\ \A j \in 2..Len(m) : m[j].region = "secondary"
    /\ \A n \in DOMAIN calls : calls[n].result # OK => n = Len(calls)
    /\ \A n \in DOMAIN calls :
         /\ calls[n].op = "put_key_policy" =>
              \E g \in Served("get_key_policy") : g < n /\ calls[n].arg = calls[g].ret
         /\ calls[n].op = "create_alias" =>
              \E g \in Served("replicate_key") :
                 g < n /\ calls[n].arg.TargetKeyId = calls[g].ret
         /\ calls[n].op = "tag_resource" =>
              \E g \in Served("list_resource_tags") :
                 g < n /\ calls[n].arg = calls[g].ret /\ calls[g].ret # {}
    /\ (/\ Served("create_alias") # {}
        /\ \E g \in Served("list_resource_tags") : calls[g].ret # {})
       => Issued("tag_resource")
    /\ pc \in {"loop", "returned"}

C15_Witness ==
  /\ Processed("replicate_ireland") /\ ~event.dry_run
  /\ i = 1 /\ Len(event.key_arns) = 2 /\ event.key_arns[1] # event.key_arns[2]
  /\ Len(calls) = 7 /\ \A n \in DOMAIN calls : calls[n].result = OK
  /\ calls[7].op = "tag_resource"
  /\ replicas[LastKey].exists
  /\ replicas[LastKey].policy = PolicyOf(LastKey)
  /\ replicas[LastKey].tags = ktags[LastKey] /\ ktags[LastKey] # {}

ReplicationCalls == {"get_key_policy", "replicate_key", "put_key_policy",
                     "create_alias", "tag_resource"}

\* C16: under replicate_ireland, a key none of whose aliases targets the
\* key's own identifier, or whose alias lookup the provider fails, is
\* skipped with a warning: none of get_key_policy, replicate_key,
\* put_key_policy, create_alias, tag_resource is issued for it, and the loop
\* goes on to the other keys.
C16_NoAliasSkipped ==
  (/\ Processed("replicate_ireland")
   /\ OwnAliases(LastKey) = {} \/ calls[1].result # OK)
  => /\ Len(calls) = 1 /\ calls[1].op = "list_aliases"
     /\ \A n \in DOMAIN calls : calls[n].op \notin ReplicationCalls
     /\ [level |-> "warning", msg |-> "No alias found, skipping replication"] \in logged
     /\ pc \in {"loop", "returned"}

C16_Witness ==
  /\ Processed("replicate_ireland") /\ ~event.dry_run
  /\ i = 1 /\ Len(event.key_arns) = 2 /\ pc = "loop"
  /\ kstate[LastKey] = "Enabled"
  /\ kaliases[LastKey] # <<>> /\ OwnAliases(LastKey) = {}
  /\ Len(calls) = 1 /\ calls[1].op = "list_aliases" /\ calls[1].result = OK
  /\ Logged("No alias found, skipping replication")

OtherTags(tags) == {t \in tags : t.TagKey # "MigrationStatus"}
MigrationCompleted == [TagKey |-> "MigrationStatus", TagValue |-> "completed"]

\* C17: a step of tag_srk_migration / remove_tag_srk_migration issues one
\* tag_resource / untag_resource call for the MigrationStatus tag of the
\* listed key and no describe_key call; it leaves every key's state, every
\* tag other than MigrationStatus (DisabledOn and service_name among them),
\* and all of the other keys unchanged.
C17_MigrationTagOnly ==
  [][(/\ pc = "loop" /\ i < Len(event.key_arns)
      /\ event.action \in {"tag_srk_migration", "remove_tag_srk_migration"})
     => LET k == KeyIdOf(NextArn) IN
        /\ kstate' = kstate /\ kaliases' = kaliases /\ replicas' = replicas
        /\ \A h \in Keys : OtherTags(ktags'[h]) = OtherTags(ktags[h])
        /\ \A h \in Keys \ {k} : ktags'[h] = ktags[h]
        /\ Len(calls') = 1 /\ calls'[1].key = k
        /\ IF event.action = "tag_srk_migration"
           THEN /\ calls'[1].op = "tag_resource"
                /\ calls'[1].arg = {MigrationCompleted}
                /\ ktags'[k] = IF calls'[1].result = OK
                               THEN OtherTags(ktags[k]) \cup {MigrationCompleted}
                               ELSE ktags[k]
           ELSE /\ calls'[1].op = "untag_resource"
                /\ calls'[1].arg = {"MigrationStatus"}
                /\ ktags'[k] = IF calls'[1].result = OK
                               THEN OtherTags(ktags[k]) ELSE ktags[k]]_vars

C17_Witness ==
  /\ Processed("tag_srk_migration")
  /\ Len(calls) = 1 /\ calls[1].op = "tag_resource" /\ calls[1].result = OK
  /\ kstate[LastKey] = "PendingDeletion"
  /\ ktags[LastKey] = {MigrationCompleted, DisabledOnToday,
                       [TagKey |-> "service_name", TagValue |-> "rds"]}

\* C18: after an enable request all of whose provider calls for a key
\* succeeded, the key is Enabled and carries no DisabledOn tag, and the
\* schedule_deletion request that comes next skips the key: it issues no
\* schedule_key_deletion call (and no other mutating call) for it and the key
\* stays Enabled.
C18_EnabledKeyNotScheduled ==
  /\ \A k \in Keys :
       lastEnable[k] \in {"ok", "repeat", "checked"}
       => kstate[k] = "Enabled" /\ ~HasTag(ktags[k], "DisabledOn")
  /\ (Processed("schedule_deletion") /\ lastEnable[LastKey] = "checked")
     => /\ ~Issued("schedule_key_deletion")
        /\ \A n \in DOMAIN calls : calls[n].op \notin MutatingCalls
        /\ SomeCallFailed \/ Logged("not disabled, skipping deletion")
                          \/ Logged("in use, skipping deletion")

C18_Witness ==
  /\ Processed("schedule_deletion") /\ ~event.dry_run
  /\ lastEnable[LastKey] = "checked"
  /\ Len(calls) = 2 /\ calls[1].ret = "Enabled" /\ calls[2].ret = {}
  /\ Logged("not disabled, skipping deletion")
  /\ kstate[LastKey] = "Enabled"

\* the calls of the last iteration are the first n of `order`, each but the
\* last of them served
PrefixOf(order) ==
  /\ Len(calls) \in 1..Len(order)
  /\ \A j \in DOMAIN calls : calls[j].op = order[j] /\ calls[j].key = LastKey
  /\ \A j \in 1..(Len(calls) - 1) : calls[j].result = OK
LastServed == calls[Len(calls)].result = OK

\* C19: the calls a step of enable, cancel_deletion, tag_srk_migration or
\* remove_tag_srk_migration issues, the mutating ones included, are decided
\* by the provider's answers alone: they are the same with dry_run true as
\* with dry_run false, and a served mutating call takes effect either way.
C19_DryRunIgnored ==
  /\ Processed("enable") =>
       /\ PrefixOf(<<"describe_key", "enable_key", "list_resource_tags",
                     "untag_resource">>)
       /\ Len(calls) = 4 => \E t \in calls[3].ret : t.TagKey = "DisabledOn"
       /\ LastServed =>
            \/ Len(calls) = 4
            \/ Len(calls) = 3 /\ \A t \in calls[3].ret : t.TagKey # "DisabledOn"
       /\ Len(calls) >= 2 /\ calls[2].result = OK => kstate[LastKey] = "Enabled"
       /\ Len(calls) = 4 /\ LastServed => ~HasTag(ktags[LastKey], "DisabledOn")
  /\ Processed("cancel_deletion") =>
       /\ PrefixOf(<<"describe_key", "cancel_key_deletion">>)
       /\ Len(calls) = 2 => calls[1].ret \in {"PendingDeletion", "PendingReplicaDeletion"}
       /\ LastServed =>
            \/ Len(calls) = 2
            \/ calls[1].ret \notin {"PendingDeletion", "PendingReplicaDeletion"}
       /\ Len(calls) = 2 /\ LastServed
          => kstate[LastKey] \notin {"PendingDeletion", "PendingReplicaDeletion"}
  /\ Processed("tag_srk_migration") =>
       /\ PrefixOf(<<"tag_resource">>)
       /\ calls[1].arg = {MigrationCompleted}
       /\ LastServed => MigrationCompleted \in ktags[LastKey]
  /\ Processed("remove_tag_srk_migration") =>
       /\ PrefixOf(<<"untag_resource">>)
       /\ calls[1].arg = {"MigrationStatus"}
       /\ LastServed => ~HasTag(ktags[LastKey], "MigrationStatus")

C19_Witness ==
  /\ Processed("enable") /\ event.dry_run
  /\ Len(calls) = 4 /\ \A n \in DOMAIN calls : calls[n].result = OK
  /\ calls[1].ret = "Disabled"
  /\ calls[2].op = "enable_key" /\ calls[4].op = "untag_resource"
  /\ kstate[LastKey] = "Enabled" /\ ~HasTag(ktags[LastKey], "DisabledOn")

FailedAt(op) == \E n \in DOMAIN calls : calls[n].op = op /\ calls[n].result # OK

\* C20: replication does not roll back.  When replicate_key was served and
\* a later step of the same key failed, the replica stays in the secondary
\* region without what the steps that did not run would have given it (no
\* alias, no copied tags); and a further non-dry-run replicate_ireland step
\* for a key that has a replica issues replicate_key again once its three
\* reads are served.
C20_NoRollback ==
  /\ [](( /\ Processed("replicate_ireland") /\ ~event.dry_run
          /\ Served("replicate_key") # {} /\ SomeCallFailed)
        => /\ replicas[LastKey].exists
           /\ replicas[LastKey].tags = {}
           /\ FailedAt("put_key_policy")
              => /\ replicas[LastKey].policy # calls[2].ret
                 /\ replicas[LastKey].alias = <<>>
                 /\ ~Issued("create_alias") /\ ~Issued("tag_resource")
           /\ FailedAt("create_alias")
              => replicas[LastKey].alias = <<>> /\ ~Issued("tag_resource"))
  /\ [][\A k \in Keys :
         (/\ InLoop("replicate_ireland") /\ ~event.dry_run /\ KeyIdOf(NextArn) = k
          /\ replicas[k].exists
          /\ Len(calls') >= 3 /\ \A n \in 1..3 : calls'[n].result = OK)
         => /\ Len(calls') >= 4
            /\ calls'[4].op = "replicate_key" /\ calls'[4].key = k]_vars

C20_Witness ==
  /\ Processed("replicate_ireland") /\ ~event.dry_run
  /\ Len(calls) = 4 /\ calls[4].op = "replicate_key" /\ calls[4].result = ClientError
  /\ replicas[LastKey].exists
  /\ replicas[LastKey].alias = <<>> /\ replicas[LastKey].tags = {}
  /\ ktags[LastKey] # {}
====
